---- MODULE Spec2Model ----
(***************************************************************************)
(* Model of propan.rabbit.broker.RabbitBroker: subscriber registration,    *)
(* publish (one-way and RPC mode) and the per-delivery process_wrapper.    *)
(* Collaborators that live outside src/ (RPCCallback, WatcherContext,      *)
(* Handler, AioPikaParser) are modelled from the specification.            *)
(***************************************************************************)
EXTENDS Integers, Sequences, FiniteSets, TLC

None == "None"

\* ---- bounds of the model ------------------------------------------------
MaxCalls == 2      \* application-level publish() invocations
MaxMsgs == 2       \* deliveries that may ever sit in a queue
MaxRegs == 2       \* subscriber registrations before start
MaxStream == 2     \* replies buffered for one reply consumer
MaxTries == 1      \* maximum attempt count of the counted-retry watcher
MaxParams == 2     \* parameters of a wrapped function, arguments of a call

\* ---- program constants ---------------------------------------------------
RABBIT_REPLY == "amq.rabbitmq.reply-to"

CallIds == 1..MaxCalls
MsgIds == 1..MaxMsgs
Queues == {"q", "rq"}
Exchanges == {None, "ex"}
Vals == {"1", "2"}

VARIABLES
    channel,      \* self._channel: None or "open"
    handlers,     \* self.handlers: routing key -> sequence of subscriptions
    registered,   \* history: sequence of <<key, subscription>> as decorated
    rpc_lock,     \* lock id -> owner (a call id), 0 when free
    declared,     \* exchanges declared through self.declarer
    call,         \* call id -> state of one publish() invocation
    stream,       \* call id -> replies handed to that call's reply consumer
    dlv,          \* message id -> delivery and the state of its processing
    nextId,       \* next free message id
    returned,     \* what the publish() that finished last handed its caller
    finished,     \* the processing attempt that ended last
    watcher,      \* message id -> attempts begun under its WatcherEntry, 0: none
    binding       \* one call of a function wrapped by apply_types

vars == <<channel, handlers, registered, rpc_lock, declared, call, stream,
          dlv, nextId, returned, finished, watcher, binding>>

\* ---- subscriptions -------------------------------------------------------
\* A downstream Publisher as built by RabbitBroker.publisher.
Publisher(q) == [queue |-> q, exchange |-> None, routing_key |-> "",
                 reply_to |-> None]

\* The subscriptions an application may register: a filter, the downstream
\* publishers of its call wrapper and its retry setting (0: no watcher).
SubM == [name |-> "m", filter |-> "default", publishers |-> <<>>,
         retry |-> 0]

SubP == [name |-> "p", filter |-> "default",
         publishers |-> <<Publisher("rq")>>, retry |-> MaxTries]

\* Two stacked @broker.publisher decorators and a counted-retry watcher.
SubPP == [name |-> "pp", filter |-> "default",
          publishers |-> <<Publisher("rq"),
                           [Publisher("rq") EXCEPT !.reply_to = "q"]>>,
          retry |-> MaxTries]

SubCatalogue ==
    { SubM,
      [name |-> "f", filter |-> "has_reply", publishers |-> <<>>,
       retry |-> 0],
      SubP }

\* get_routing_hash(queue, exchange): one key per distinct pair.
get_routing_hash(queue, exchange) == <<queue, exchange>>

RoutingKeys == {get_routing_hash(q, ex) : q \in Queues, ex \in Exchanges}

\* filter=lambda m: not m.processed, and one custom filter.
Filter(kind, m) ==
    IF kind = "default" THEN ~m.processed
    ELSE m.reply_to # None

\* ---- arguments of publish() ----------------------------------------------
Args(q, ex, rpc, reply_to, rpc_timeout, raise_timeout) ==
    [queue |-> q, exchange |-> ex, rpc |-> rpc, reply_to |-> reply_to,
     rpc_timeout |-> rpc_timeout, raise_timeout |-> raise_timeout]

NoArgs == Args("q", None, FALSE, None, 0, FALSE)

\* The publish() invocations an application may make.
PublishArgs ==
    { Args("q", None, FALSE, None, 0, FALSE),
      Args("q", "ex", FALSE, "rq", 0, FALSE),
      Args("q", None, TRUE, None, 3, FALSE),
      Args("q", None, TRUE, None, 3, TRUE),
      Args("q", None, TRUE, None, 0, FALSE),
      Args("q", None, TRUE, None, 0, TRUE),
      Args("q", "ex", TRUE, "rq", 0, FALSE) }

OneWayArgs ==
    { Args("q", None, FALSE, None, 0, FALSE),
      Args("q", "ex", FALSE, "rq", 0, FALSE) }

BasicArgs ==
    { Args("q", None, FALSE, None, 0, FALSE),
      Args("q", "ex", FALSE, "rq", 0, FALSE),
      Args("q", None, TRUE, None, 3, FALSE) }

\* ---- Serializer ------------------------------------------------------------
\* AioPikaParser.encode_message: the value becomes a text body with its
\* content type; the headers carry reply_to and the correlation id.
encode_message(v, reply_to, corr, dest) ==
    [dest |-> dest, body |-> <<"text/plain", v>>, reply_to |-> reply_to,
     corr |-> corr]

\* parse_message followed by decode_message: the value of a text body.
decode_message(m) == IF m.body[1] = "text/plain" THEN m.body[2] ELSE None

\* ---- construction --------------------------------------------------------
NoResult == [kind |-> "pending", val |-> None, corr |-> 0]

IdleCall == [pc |-> "idle", args |-> NoArgs, corr |-> 0, sent |-> 0,
             entered |-> FALSE, consuming |-> FALSE]

\* The frame of a publish() that has returned is gone.
DoneCall == [IdleCall EXCEPT !.pc = "done"]

NoReturn == [c |-> 0, args |-> NoArgs, corr |-> 0, result |-> NoResult,
             sent |-> 0, entered |-> FALSE, arrived |-> <<>>]

NoMsg == encode_message(None, None, 0, None)

IdleDlv == [pc |-> "free", msg |-> NoMsg, attempt |-> 0, processed |-> FALSE,
            sub |-> 0, r |-> None, idx |-> 0, acked |-> <<>>, exc |-> None,
            replyLog |-> <<>>, downLog |-> <<>>, logged |-> <<>>,
            raised |-> None, inner |-> 0]

NoAttempt == [d |-> 0, rec |-> IdleDlv]

\* ---- apply_types ------------------------------------------------------------
\* Parameters are named by their position in the signature.
ParamNames == 1..MaxParams

Absent == "absent"

\* Payload values: the int 1, the str "1" and the str "x".
Values == {"1", "s1", "sx"}

\* NOT_CAST = (Alias, Depends)
NOT_CAST == {"Alias", "Depends"}

\* The parameters a handler may declare: `p: int`, `p: str`, `p`,
\* `p=Depends(...)` and `p: Logger = Alias(...)`.
ParamKinds ==
    { [annotation |-> "int", default |-> "empty"],
      [annotation |-> "str", default |-> "empty"],
      [annotation |-> "empty", default |-> "empty"],
      [annotation |-> "empty", default |-> "Depends"],
      [annotation |-> "Logger", default |-> "Alias"] }

NoKw == [n \in ParamNames |-> Absent]

Unbound == [status |-> "unbound", kw |-> NoKw, err |-> 0]

\* No call of a wrapped function has been made.
NoBinding == [sig |-> <<>>, args |-> <<>>, kwargs |-> NoKw, out |-> Unbound]

\* Lines 18-31: the parameters that get a ModelField.
annotations(sig) ==
    {n \in 1..Len(sig) :
        /\ sig[n].default \notin NOT_CAST
        /\ sig[n].annotation # "empty" \/ sig[n].default # "empty"}

\* ModelField.validate of pydantic: an int field takes an int and a str of
\* digits, a str field takes a str and turns an int into its digits.
validate(type, v) ==
    IF type = "int"
    THEN IF v \in {"1", "s1"} THEN [value |-> "1", err |-> FALSE]
         ELSE [value |-> v, err |-> TRUE]
    ELSE IF v = "1" THEN [value |-> "s1", err |-> FALSE]
         ELSE [value |-> v, err |-> FALSE]

\* What _cast_type raises when a payload value does not validate.
BinderError == "ValueError"

\* Lines 33-38: a parameter without a ModelField passes its value on as is.
cast_type(sig, n, v) ==
    IF n \in annotations(sig) THEN validate(sig[n].annotation, v)
    ELSE [value |-> v, err |-> FALSE]

\* Lines 42-44: positional arguments are zipped with the parameter names,
\* then the keyword arguments are laid over them.
merge(sig, args, kwargs) ==
    [n \in ParamNames |->
        IF kwargs[n] # Absent THEN kwargs[n]
        ELSE IF n <= Len(sig) /\ n <= Len(args) THEN args[n]
        ELSE Absent]

\* Lines 46-51: every merged value is cast in the order of the merge
\* (keyword arguments given in the order of the signature), the first
\* failure raises ValueError for its parameter; func(**kw) raises TypeError for a name it
\* does not declare and for a parameter without default left unfilled.
wrapper(sig, args, kwargs) ==
    LET kw == merge(sig, args, kwargs)
        given == {n \in ParamNames : kw[n] # Absent}
        bad == {n \in given : n <= Len(sig) /\ cast_type(sig, n, kw[n]).err}
        first == CHOOSE n \in bad : \A o \in bad : n <= o
    IN IF bad # {}
       THEN [status |-> BinderError, kw |-> NoKw, err |-> first]
       ELSE IF \/ \E n \in given : n > Len(sig)
               \/ \E n \in 1..Len(sig) :
                     sig[n].default = "empty" /\ n \notin given
       THEN [status |-> "TypeError", kw |-> NoKw, err |-> 0]
       ELSE [status |-> "called",
             kw |-> [n \in ParamNames |->
                       IF n \in given THEN cast_type(sig, n, kw[n]).value
                       ELSE Absent],
             err |-> 0]

LockFor_fresh(c) == c

\* The lock a publish() of call c synchronises on: the one lock created in
\* __init__ and handed to every RPCCallback.
LockFor(c) == 0

LockIds == {0} \cup CallIds

InitBroker ==
    /\ channel = None
    /\ handlers = [k \in RoutingKeys |-> <<>>]
    /\ registered = <<>>
    /\ rpc_lock = [l \in LockIds |-> 0]
    /\ declared = {}
    /\ call = [c \in CallIds |-> IdleCall]
    /\ stream = [c \in CallIds |-> <<>>]
    /\ dlv = [d \in MsgIds |-> IdleDlv]
    /\ nextId = 1
    /\ returned = NoReturn
    /\ finished = NoAttempt
    /\ watcher = [d \in MsgIds |-> 0]

Init == InitBroker /\ binding = NoBinding

\* ---- RabbitBroker.subscriber / consumer_wrapper --------------------------
consumer_wrapper_fresh(tbl, key, sub) ==
    [tbl EXCEPT ![key] = <<sub>>]

consumer_wrapper_byQueue(tbl, key, sub) ==
    [k \in DOMAIN tbl |->
        IF k[1] = key[1] THEN Append(tbl[k], sub) ELSE tbl[k]]

\* handlers.get(key, Handler(...)); handler.add_call(...); handlers[key] = handler
consumer_wrapper(tbl, key, sub) ==
    [tbl EXCEPT ![key] = Append(tbl[key], sub)]

\* @broker.subscriber(queue, exchange) applied to a function.
Register(q, ex, sub) ==
    /\ channel = None
    /\ Len(registered) < MaxRegs
    /\ LET key == get_routing_hash(q, ex) IN
         /\ handlers' = consumer_wrapper(handlers, key, sub)
         /\ registered' = Append(registered, <<key, sub>>)
    /\ UNCHANGED <<watcher, binding>>
    /\ UNCHANGED <<channel, rpc_lock, declared, call, stream, dlv, nextId,
                   returned, finished>>

\* exchange=None, the default of subscriber().
Subscribe(q, sub) == Register(q, None, sub)

\* ---- RabbitBroker.start / _connect ---------------------------------------
Start ==
    /\ channel = None
    /\ channel' = "open"
    /\ UNCHANGED <<watcher, binding>>
    /\ UNCHANGED <<handlers, registered, rpc_lock, declared, call, stream,
                   dlv, nextId, returned, finished>>

\* ---- transport boundary ----------------------------------------------------
Consumers == {c \in CallIds : call[c].consuming}

\* A message routed to a queue becomes a pending delivery.
Enqueue(tbl, m) ==
    [tbl EXCEPT ![nextId] = [IdleDlv EXCEPT !.pc = "queued", !.msg = m,
                                           !.attempt = 0]]

\* A message routed to the shared reply destination is handed to a consumer
\* of that destination (c > 0), or is lost when there is none (c = 0).
ReplyTargets ==
    LET free == {c \in Consumers : Len(stream[c]) < MaxStream}
    IN IF free = {} THEN {0} ELSE free

ToStream(c, m) ==
    IF c = 0 THEN stream ELSE [stream EXCEPT ![c] = Append(@, m)]

CanRoute(m) == m.dest = RABBIT_REPLY \/ nextId <= MaxMsgs

\* ---- RabbitBroker.publish --------------------------------------------------
Result(kind, val, corr) == [kind |-> kind, val |-> val, corr |-> corr]

Context_always(a) == "RPCCallback"

\* Lines 242-250: RPCCallback(self._rpc_lock, ...) when rpc is True, else
\* fake_context(), which yields None and takes no lock.
Context(a) == IF a.rpc THEN "RPCCallback" ELSE "fake_context"

ArgsError_none(a) == FALSE

\* rpc is True and reply_to is not None: raise WRONG_PUBLISH_ARGS
ArgsError(a) == a.rpc /\ a.reply_to # None

ScopeExits_returnOnly == {"return"}

ScopeExits_noRaise == {"return", "cancel"}

\* The ways of leaving the body of `async with context` on which the
\* context's __aexit__ runs: all of them.
ScopeExits == {"return", "raise", "cancel"}

scope_swapped(raise_timeout) ==
    IF raise_timeout THEN "move_on_after" ELSE "fail_after"

\* scope = anyio.fail_after if raise_timeout else anyio.move_on_after
scope(raise_timeout) ==
    IF raise_timeout THEN "fail_after" ELSE "move_on_after"

\* RPCCallback.__aenter__: take the lock, then consume the reply destination.
RPCCallback_aenter(lock, c) == [lock EXCEPT ![LockFor(c)] = c]

\* RPCCallback.__aexit__: release the lock and cancel the reply consumer.
RPCCallback_aexit(lock, c) == [lock EXCEPT ![LockFor(c)] = 0]

\* What the caller of publish() gets, with the call's arguments, the
\* correlation id it sent and the replies its consumer had been handed.
Outcome(c, a, res, sent) ==
    [c |-> c, args |-> a, corr |-> call[c].corr, result |-> res,
     sent |-> sent, entered |-> call[c].entered, arrived |-> stream[c]]

\* Leaving publish(): the caller gets res and, for a call inside the RPC
\* context, the context is exited.
Leave(c, how, res) ==
    /\ returned' = Outcome(c, call[c].args, res, call[c].sent)
    /\ IF call[c].entered /\ how \in ScopeExits
       THEN /\ rpc_lock' = RPCCallback_aexit(rpc_lock, c)
            /\ call' = [call EXCEPT ![c] = DoneCall]
            /\ stream' = [stream EXCEPT ![c] = <<>>]
       ELSE /\ call' = [call EXCEPT ![c] =
                          [DoneCall EXCEPT !.consuming = call[c].consuming]]
            /\ UNCHANGED <<rpc_lock, stream>>

\* Lines 235-255: the channel check, the argument check, the choice of the
\* context and the exchange (declared unless it is the default exchange).
StartCall(c, a) ==
    /\ call[c].pc = "idle"
    /\ \A b \in CallIds : b < c => call[b].pc # "idle"
    /\ IF channel = None \/ ArgsError(a)
       THEN /\ call' = [call EXCEPT ![c] = DoneCall]
            /\ returned' = Outcome(c, a, Result("raise", "ValueError", 0), 0)
            /\ UNCHANGED declared
       ELSE /\ call' = [call EXCEPT
                           ![c].pc = IF Context(a) = "RPCCallback"
                                     THEN "enter" ELSE "send",
                           ![c].args = a, ![c].corr = c]
            /\ declared' = IF a.exchange = None THEN declared
                           ELSE declared \cup {a.exchange}
            /\ UNCHANGED returned

\* publish() called by the application.
PublishStart(c, a) ==
    /\ StartCall(c, a)
    /\ UNCHANGED <<watcher, binding>>
    /\ UNCHANGED <<channel, handlers, registered, rpc_lock, stream, dlv,
                   nextId, finished>>

\* Line 257 in RPC mode: async with RPCCallback(...) as response_queue.
PublishEnter(c) ==
    /\ call[c].pc = "enter"
    /\ rpc_lock[LockFor(c)] = 0
    /\ rpc_lock' = RPCCallback_aenter(rpc_lock, c)
    /\ call' = [call EXCEPT ![c].pc = "send", ![c].entered = TRUE,
                            ![c].consuming = TRUE]
    /\ UNCHANGED <<watcher, binding>>
    /\ UNCHANGED <<channel, handlers, registered, declared, stream, dlv,
                   nextId, returned, finished>>

\* Lines 258-274: encode, publish through the exchange; a one-way publish
\* returns the confirmation, an RPC publish goes on to wait.  A failing
\* transport publish raises out of the context.
PublishSend(c, ok) ==
    /\ call[c].pc = "send"
    /\ LET a == call[c].args
           m == encode_message("hello",
                    IF call[c].entered THEN RABBIT_REPLY ELSE a.reply_to,
                    call[c].corr, a.queue)
       IN IF ok
          THEN /\ nextId <= MaxMsgs
               /\ dlv' = Enqueue(dlv, m)
               /\ nextId' = nextId + 1
               /\ IF call[c].entered
                  THEN /\ call' = [call EXCEPT ![c].pc = "wait",
                                               ![c].sent = @ + 1]
                       /\ UNCHANGED <<rpc_lock, stream, returned>>
                  ELSE /\ call' = [call EXCEPT ![c] = DoneCall]
                       /\ returned' = Outcome(c, a,
                                          Result("confirm", None, 0), 1)
                       /\ UNCHANGED <<rpc_lock, stream>>
          ELSE /\ Leave(c, "raise", Result("raise", "PublishError", 0))
               /\ UNCHANGED <<dlv, nextId>>
    /\ UNCHANGED <<watcher, binding>>
    /\ UNCHANGED <<channel, handlers, registered, declared, finished>>

\* Lines 283-292: a message is received before the deadline; it is parsed,
\* decoded and returned.  A deadline of 0 has passed before the receive.
PublishReceive(c) ==
    /\ call[c].pc = "wait"
    /\ call[c].args.rpc_timeout > 0
    /\ stream[c] # <<>>
    /\ LET msg == Head(stream[c])
       IN Leave(c, "return", Result("value", decode_message(msg), msg.corr))
    /\ UNCHANGED <<watcher, binding>>
    /\ UNCHANGED <<channel, handlers, registered, declared, dlv, nextId,
                   finished>>

\* Lines 277-286: the deadline passes with nothing received: fail_after
\* raises TimeoutError, move_on_after leaves msg = None and None is returned.
PublishTimeout(c) ==
    /\ call[c].pc = "wait"
    /\ call[c].args.rpc_timeout = 0 \/ stream[c] = <<>>
    /\ IF scope(call[c].args.raise_timeout) = "fail_after"
       THEN Leave(c, "raise", Result("raise", "TimeoutError", 0))
       ELSE Leave(c, "return", Result("none", None, 0))
    /\ UNCHANGED <<watcher, binding>>
    /\ UNCHANGED <<channel, handlers, registered, declared, dlv, nextId,
                   finished>>

\* The task running publish() is cancelled at one of its awaits.
PublishCancel(c) ==
    /\ call[c].pc \in {"enter", "send", "wait"}
    /\ Leave(c, "cancel", Result("cancelled", None, 0))
    /\ UNCHANGED <<watcher, binding>>
    /\ UNCHANGED <<channel, handlers, registered, declared, dlv, nextId,
                   finished>>

\* ---- Handler.consume: filter-based dispatch --------------------------------
\* The index of the first subscription whose filter accepts the delivery,
\* 0 when none does.
RECURSIVE FirstMatch(_, _, _)
FirstMatch(subs, m, i) ==
    IF i > Len(subs) THEN 0
    ELSE IF Filter(subs[i].filter, m) THEN i
    ELSE FirstMatch(subs, m, i + 1)

FilterView(d) == [processed |-> dlv[d].processed,
                  reply_to |-> dlv[d].msg.reply_to]

SubsOf(d) == handlers[get_routing_hash(dlv[d].msg.dest, None)]

SubOf(d) == SubsOf(d)[dlv[d].sub]

\* WatcherContext.__aenter__: the entry of the delivery identity is created
\* on its first attempt and counts the attempts begun.
WatcherContext_aenter(w, d) == [w EXCEPT ![d] = @ + 1]

\* A delivery is taken from its queue and dispatched: the first subscription
\* whose filter accepts it claims it and its process_wrapper starts.
Consume(d) ==
    /\ channel # None
    /\ dlv[d].pc = "queued"
    /\ SubsOf(d) # <<>>
    /\ LET i == FirstMatch(SubsOf(d), FilterView(d), 1)
       IN dlv' = [dlv EXCEPT ![d] =
                    IF i = 0 THEN [@ EXCEPT !.pc = "unmatched"]
                    ELSE [@ EXCEPT !.pc = "handler", !.sub = i,
                                   !.processed = TRUE, !.r = None,
                                   !.idx = 0, !.acked = <<>>, !.exc = None,
                                   !.replyLog = <<>>, !.downLog = <<>>,
                                   !.logged = <<>>, !.raised = None,
                                   !.inner = 0,
                                   !.attempt = watcher[d]]]
         /\ watcher' = IF i = 0 THEN watcher
                       ELSE WatcherContext_aenter(watcher, d)
    /\ UNCHANGED binding
    /\ UNCHANGED <<channel, handlers, registered, rpc_lock, declared, call,
                   stream, nextId, returned, finished>>

\* ---- WatcherContext --------------------------------------------------------
\* The acknowledgment WatcherContext.__aexit__ issues for an attempt that
\* left its scope with exception exc (None: no exception), under the retry
\* setting of the subscription (0: OneTryWatcher).
WatcherDecision(exc, retry, attempt) ==
    IF exc = None THEN "ack"
    ELSE IF exc = "ValidationError" THEN "reject"
    ELSE IF retry = 0 THEN "reject"
    ELSE IF attempt < retry THEN "requeue"
    ELSE "reject"

\* ---- RabbitBroker._process_message.process_wrapper -----------------------
WatcherScope_late == {"reply", "down"}

WatcherScope_handlerOnly == {"handler"}

\* The awaits of process_wrapper that lie inside
\* `async with WatcherContext(watcher, message)`.
WatcherScope == {"handler", "reply", "down"}

Caught_nothing(pos, exc) == FALSE

Caught_handlerOnly(pos, exc) == pos = "handler" /\ exc = "RuntimeException"

\* What process_wrapper itself catches: RuntimeException around the handler
\* (line 309), Exception around each downstream publish (line 335).
Caught(pos, exc) ==
    \/ pos = "handler" /\ exc = "RuntimeException"
    \/ pos = "down" /\ exc \in {"PublishError", "ValueError"}

WatcherOf_counted(sub) == MaxTries

WatcherOf_oneTry(sub) == 0

\* watcher = OneTryWatcher() when None was given (lines 300-301).
WatcherOf(sub) == sub.retry

\* The attempt leaves the WatcherContext scope with exc; the scope issues
\* its acknowledgment.  An exception raised outside the scope escapes.
Finish(rec, pos, exc, sub) ==
    IF pos \notin WatcherScope /\ exc # None
    THEN [rec EXCEPT !.pc = "crashed", !.exc = exc]
    ELSE LET act == WatcherDecision(exc, WatcherOf(sub), rec.attempt)
         IN [rec EXCEPT !.pc = IF act = "requeue" THEN "requeued" ELSE "done",
                        !.acked = Append(@, act), !.exc = exc]

\* The publish() call made for downstream publisher i (lines 322-334); the
\* message handed to the transport is logged as the call is made.
PublishDown(rec, sub, i) ==
    LET pb == sub.publishers[i]
    IN [rec EXCEPT !.pc = "down", !.idx = i,
                   !.downLog = Append(@, encode_message(rec.r, pb.reply_to,
                                             rec.msg.corr, pb.queue))]

\* Lines 320-346 from publisher i on: the next downstream publish, or
\* `return r` when none is left.
Forward(rec, sub, i) ==
    IF i <= Len(sub.publishers) THEN PublishDown(rec, sub, i)
    ELSE Finish(rec, "down", None, sub)

\* publish(message=r, routing_key=message.reply_to,
\*         correlation_id=message.correlation_id): the message handed to the
\* transport.
ReplyMessage(rec) ==
    encode_message(rec.r, None, rec.msg.corr, rec.msg.reply_to)

\* The arguments of the publish() calls process_wrapper makes: rpc is left
\* at its default, False (lines 314-318 and 322-334).
ReplyArgs(rec) == Args(rec.msg.reply_to, None, FALSE, None, 3, FALSE)

DownArgs(pb) == Args(pb.queue, pb.exchange, FALSE, pb.reply_to, 3, FALSE)

\* A publish() with arguments a cannot enter its context yet: the context
\* is an RPCCallback and the lock is taken.
LockWait(a) == Context(a) = "RPCCallback" /\ rpc_lock[LockFor(0)] # 0

AfterHandler_ackFirst(rec, sub) == Finish(rec, "handler", None, sub)

AfterHandler_freshCorr(rec, sub) ==
    IF rec.msg.reply_to # None
    THEN [rec EXCEPT !.pc = "reply",
                     !.replyLog = Append(@, [ReplyMessage(rec)
                                             EXCEPT !.corr = 0])]
    ELSE Forward(rec, sub, 1)

\* Lines 312-318: the reply publish when the delivery names a reply
\* destination, else straight to the downstream publishers.  The call is
\* logged as it is made.
AfterHandler(rec, sub) ==
    IF rec.msg.reply_to # None
    THEN [rec EXCEPT !.pc = "reply",
                     !.replyLog = Append(@, ReplyMessage(rec))]
    ELSE Forward(rec, sub, 1)

Ended(rec) == rec.pc \in {"done", "requeued", "crashed"}

\* What is left of a delivery once an attempt has ended: a requeued
\* delivery is back in its queue for one more attempt.
Rest(rec) ==
    IF rec.pc = "requeued"
    THEN [IdleDlv EXCEPT !.pc = "queued", !.msg = rec.msg]
    ELSE IF Ended(rec) THEN [IdleDlv EXCEPT !.pc = rec.pc]
    ELSE rec

\* WatcherContext.__aexit__: the entry is discarded with ack and reject and
\* kept with requeue.
WatcherContext_aexit(w, d, rec) ==
    IF rec.pc = "done" THEN [w EXCEPT ![d] = 0] ELSE w

\* process_wrapper moves on to rec; an attempt that ended is recorded.
Step(tbl, d, rec) ==
    /\ dlv' = [tbl EXCEPT ![d] = Rest(rec)]
    /\ finished' = IF Ended(rec) THEN [d |-> d, rec |-> rec] ELSE finished
    /\ watcher' = WatcherContext_aexit(watcher, d, rec)

\* Line 307: the handler returns r.
HandlerReturns(d, r) ==
    /\ dlv[d].pc = "handler"
    /\ Step(dlv, d, AfterHandler([dlv[d] EXCEPT !.r = r], SubOf(d)))
    /\ UNCHANGED binding
    /\ UNCHANGED <<channel, handlers, registered, rpc_lock, declared, call,
                   stream, nextId, returned>>

\* Lines 307-310: the handler (or the binding of its arguments) raises.
HandlerRaises(d, exc) ==
    /\ dlv[d].pc = "handler"
    /\ Step(dlv, d, Finish([dlv[d] EXCEPT !.raised = exc], "handler",
                           IF Caught("handler", exc) THEN None ELSE exc,
                           SubOf(d)))
    /\ UNCHANGED binding
    /\ UNCHANGED <<channel, handlers, registered, rpc_lock, declared, call,
                   stream, nextId, returned>>

\* Line 307: the handler itself awaits broker.publish(...): call c runs in
\* the task of the attempt, which goes on when the call has returned.
HandlerPublishes(d, c, a) ==
    /\ dlv[d].pc = "handler"
    /\ StartCall(c, a)
    /\ dlv' = [dlv EXCEPT ![d].pc = "calling", ![d].inner = c]
    /\ UNCHANGED <<watcher, binding>>
    /\ UNCHANGED <<channel, handlers, registered, rpc_lock, stream, nextId,
                   finished>>

\* The publish() the handler awaited has returned or raised.
HandlerResumes(d) ==
    /\ dlv[d].pc = "calling"
    /\ call[dlv[d].inner].pc = "done"
    /\ dlv' = [dlv EXCEPT ![d].pc = "handler", ![d].inner = 0]
    /\ UNCHANGED <<watcher, binding>>
    /\ UNCHANGED <<channel, handlers, registered, rpc_lock, declared, call,
                   stream, nextId, returned, finished>>

\* Lines 313-318: the reply publish completes or raises.
ReplyPublished(d, ok, c) ==
    /\ dlv[d].pc = "reply"
    /\ ~LockWait(ReplyArgs(dlv[d]))
    /\ LET rec == dlv[d]
           m == rec.replyLog[Len(rec.replyLog)]
       IN IF ok
          THEN /\ CanRoute(m)
               /\ IF m.dest = RABBIT_REPLY
                  THEN /\ c \in ReplyTargets
                       /\ stream' = ToStream(c, m)
                       /\ Step(dlv, d, Forward(rec, SubOf(d), 1))
                       /\ UNCHANGED nextId
                  ELSE /\ c = 0
                       /\ Step(Enqueue(dlv, m), d, Forward(rec, SubOf(d), 1))
                       /\ nextId' = nextId + 1
                       /\ UNCHANGED stream
          ELSE /\ c = 0
               /\ Step(dlv, d, IF Caught("reply", "PublishError")
                               THEN Forward(rec, SubOf(d), 1)
                               ELSE Finish(rec, "reply", "PublishError",
                                           SubOf(d)))
               /\ UNCHANGED <<stream, nextId>>
    /\ UNCHANGED binding
    /\ UNCHANGED <<channel, handlers, registered, rpc_lock, declared, call,
                   returned>>

\* Lines 320-344: one downstream publish completes or raises; a failure is
\* caught, logged (with the index of the publisher) and the loop goes on.
DownstreamPublished(d, ok) ==
    /\ dlv[d].pc = "down"
    /\ ~LockWait(DownArgs(SubOf(d).publishers[dlv[d].idx]))
    /\ LET rec == dlv[d]
           m == rec.downLog[Len(rec.downLog)]
       IN IF ok
          THEN /\ nextId <= MaxMsgs
               /\ Step(Enqueue(dlv, m), d, Forward(rec, SubOf(d), rec.idx + 1))
               /\ nextId' = nextId + 1
          ELSE /\ Step(dlv, d, IF Caught("down", "PublishError")
                               THEN Forward([rec EXCEPT
                                               !.logged = Append(@, rec.idx)],
                                            SubOf(d), rec.idx + 1)
                               ELSE Finish(rec, "down", "PublishError",
                                           SubOf(d)))
               /\ UNCHANGED nextId
    /\ UNCHANGED binding
    /\ UNCHANGED <<channel, handlers, registered, rpc_lock, declared, call,
                   stream, returned>>

\* The task running process_wrapper is cancelled at one of its awaits.
ProcessCancel(d) ==
    /\ dlv[d].pc \in {"handler", "reply", "down"}
    /\ Step(dlv, d, Finish(dlv[d], dlv[d].pc, "CancelledError", SubOf(d)))
    /\ UNCHANGED binding
    /\ UNCHANGED <<channel, handlers, registered, rpc_lock, declared, call,
                   stream, nextId, returned>>

\* What running the handler may raise: the binder's error when the payload
\* does not fit the signature, else whatever the handler's logic raises.
HandlerErrors == {BinderError, "RuntimeException", "ValidationError",
                  "Exception"}

\* One step of the program other than the completion of a downstream
\* publish, with the registrations and the publish() arguments drawn from
\* the given sets.
Actions(Qs, Subs, As) ==
    \/ \E q \in Qs, sub \in Subs : Subscribe(q, sub)
    \/ Start
    \/ \E c \in CallIds, a \in As : PublishStart(c, a)
    \/ \E c \in CallIds : PublishEnter(c)
    \/ \E c \in CallIds, ok \in BOOLEAN : PublishSend(c, ok)
    \/ \E c \in CallIds : PublishReceive(c)
    \/ \E c \in CallIds : PublishTimeout(c)
    \/ \E c \in CallIds : PublishCancel(c)
    \/ \E d \in MsgIds : Consume(d)
    \/ \E d \in MsgIds, r \in Vals : HandlerReturns(d, r)
    \/ \E d \in MsgIds, exc \in HandlerErrors : HandlerRaises(d, exc)
    \/ \E d \in MsgIds, ok \in BOOLEAN, c \in {0} \cup CallIds :
          ReplyPublished(d, ok, c)
    \/ \E d \in MsgIds : ProcessCancel(d)

\* Every subscription of the catalogue on the request queue; one-way
\* publishes and one RPC publish.
Next ==
    \/ Actions({"q"}, SubCatalogue, BasicArgs)
    \/ \E d \in MsgIds, ok \in BOOLEAN : DownstreamPublished(d, ok)

Spec == Init /\ [][Next]_vars

\* Plain subscribers (no downstream publisher, no watcher) on the request
\* queue; every kind of publish().
NextRPC == Actions({"q"}, {SubM}, PublishArgs)

SpecRPC == Init /\ [][NextRPC]_vars

\* One-way publishes to the request queue, handled by a plain subscriber or
\* by one with two downstream publishers and a counted-retry watcher.
NextFlow ==
    \/ \E sub \in {SubM, SubPP} : Subscribe("q", sub)
    \/ Start
    \/ \E c \in CallIds, a \in OneWayArgs : PublishStart(c, a)
    \/ \E c \in CallIds, ok \in BOOLEAN : PublishSend(c, ok)
    \/ \E d \in MsgIds : Consume(d)
    \/ \E d \in MsgIds, r \in Vals : HandlerReturns(d, r)
    \/ \E d \in MsgIds, exc \in HandlerErrors : HandlerRaises(d, exc)
    \/ \E d \in MsgIds, ok \in BOOLEAN : ReplyPublished(d, ok, 0)
    \/ \E d \in MsgIds, ok \in BOOLEAN : DownstreamPublished(d, ok)
    \/ \E d \in MsgIds : ProcessCancel(d)

SpecFlow == Init /\ [][NextFlow]_vars

\* RPC publishes with a finite rpc_timeout, made by the application and by
\* handlers while they serve a request; no task is cancelled.
LiveArgs ==
    { Args("q", None, TRUE, None, 3, FALSE),
      Args("q", None, TRUE, None, 3, TRUE) }

NextLive ==
    \/ Subscribe("q", SubM)
    \/ Start
    \/ \E c \in CallIds, a \in LiveArgs : PublishStart(c, a)
    \/ \E c \in CallIds : PublishEnter(c)
    \/ \E c \in CallIds, ok \in BOOLEAN : PublishSend(c, ok)
    \/ \E c \in CallIds : PublishReceive(c)
    \/ \E c \in CallIds : PublishTimeout(c)
    \/ \E d \in MsgIds : Consume(d)
    \/ \E d \in MsgIds, c \in CallIds, a \in LiveArgs :
          HandlerPublishes(d, c, a)
    \/ \E d \in MsgIds : HandlerResumes(d)
    \/ \E d \in MsgIds, r \in Vals : HandlerReturns(d, r)
    \/ \E d \in MsgIds, exc \in HandlerErrors : HandlerRaises(d, exc)
    \/ \E d \in MsgIds, ok \in BOOLEAN, c \in {0} \cup CallIds :
          ReplyPublished(d, ok, c)

\* The event loop runs every task that can run: a publish() that can take
\* the lock takes it, the transport's publish returns or raises, and a
\* receive ends with a message or with its deadline.
Fairness ==
    \A c \in CallIds :
        /\ WF_vars(PublishEnter(c))
        /\ WF_vars(\E ok \in BOOLEAN : PublishSend(c, ok))
        /\ WF_vars(PublishReceive(c) \/ PublishTimeout(c))

SpecLive == Init /\ [][NextLive]_vars /\ Fairness

\* The registration phase: any subscription on any queue and exchange.
NextReg ==
    \/ \E q \in Queues, ex \in Exchanges, sub \in SubCatalogue :
          Register(q, ex, sub)
    \/ Start

SpecReg == Init /\ [][NextReg]_vars

\* ---- a call of a function wrapped by apply_types ----------------------------
RECURSIVE SeqsUpTo(_, _)
SeqsUpTo(S, n) ==
    IF n = 0 THEN {<<>>}
    ELSE LET shorter == SeqsUpTo(S, n - 1)
         IN shorter \cup {Append(q, x) : q \in shorter, x \in S}

\* A signature, positional arguments and keyword arguments.
InitBind ==
    /\ InitBroker
    /\ binding \in [sig : SeqsUpTo(ParamKinds, MaxParams),
                     args : SeqsUpTo(Values, MaxParams),
                     kwargs : [ParamNames -> {Absent, "1", "sx"}],
                     out : {Unbound}]

\* wrapper(*args, **kwargs)
Bind ==
    /\ binding.out = Unbound
    /\ binding' = [binding EXCEPT
                      !.out = wrapper(binding.sig, binding.args,
                                      binding.kwargs)]
    /\ UNCHANGED <<channel, handlers, registered, rpc_lock, declared, call,
                   stream, dlv, nextId, returned, finished, watcher>>

NextBind == Bind

SpecBind == InitBind /\ [][NextBind]_vars

\* ---- claims ------------------------------------------------------------------
InFlight(d) == dlv[d].pc \in {"handler", "reply", "down"}

AckKinds == {"ack", "requeue", "reject"}

\* C1: every processing attempt ends with exactly one of ack, requeue and
\* reject issued for its delivery, whether the handler returned, raised or
\* the task was cancelled; none is issued while the attempt runs, and no
\* attempt ends with the error escaping from process_wrapper.
C1_ExactlyOneAck ==
    /\ \A d \in MsgIds : dlv[d].pc # "crashed" /\ (InFlight(d) => dlv[d].acked = <<>>)
    /\ finished.d # 0 =>
          /\ finished.rec.pc \in {"done", "requeued"}
          /\ Len(finished.rec.acked) = 1
          /\ finished.rec.acked[1] \in AckKinds

\* An attempt whose handler raised under the counted-retry watcher ended
\* with a requeue.
C1_Witness ==
    /\ finished.d # 0
    /\ finished.rec.exc = "Exception"
    /\ finished.rec.acked = <<"requeue">>

RpcRegion == {c \in CallIds : call[c].args.rpc /\ call[c].pc \in {"send", "wait"}}

\* C2: at most one RPC-mode publish is between acquiring the RPC lock and
\* releasing it.
C2_OneRpcAtATime == Cardinality(RpcRegion) <= 1

\* One RPC publish waits for its reply while another waits for the lock.
C2_Witness ==
    \E c1, c2 \in CallIds :
        /\ call[c1].pc = "wait"
        /\ call[c2].pc = "enter"

\* C3: a value returned by an RPC-mode publish is the decoded reply that
\* carries the correlation id of the request this call published.
C3_OwnReplyOnly ==
    returned.result.kind = "value" => returned.result.corr = returned.corr

\* C4: the RPC lock is never held by a publish that is no longer running.
C4_LockReleased ==
    \A l \in LockIds :
        rpc_lock[l] # 0 => call[rpc_lock[l]].pc \in {"send", "wait"}

\* An RPC publish left by raising TimeoutError and the lock is free.
C4_Witness ==
    /\ returned.entered
    /\ returned.result = Result("raise", "TimeoutError", 0)
    /\ \A l \in LockIds : rpc_lock[l] = 0

Started(c) == call[c].pc = "idle" /\ call'[c].pc # "idle"

GivenArgs(c) == IF call'[c].pc = "done" THEN returned'.args ELSE call'[c].args

\* C5: a publish with rpc=true and an explicit reply_to raises ValueError
\* at once: the lock, the declared exchanges, the reply streams, the queues
\* and the handlers are as before, and nothing was sent.
C5_RejectedBeforeIO ==
    [][\A c \in CallIds :
          (Started(c) /\ GivenArgs(c).rpc /\ GivenArgs(c).reply_to # None) =>
             /\ call'[c] = DoneCall
             /\ returned'.c = c
             /\ returned'.result = Result("raise", "ValueError", 0)
             /\ returned'.sent = 0
             /\ ~returned'.entered
             /\ UNCHANGED <<channel, handlers, registered, rpc_lock,
                            declared, stream, dlv, nextId>>]_vars

\* On a started broker such a publish has raised ValueError.
C5_Witness ==
    /\ channel # None
    /\ returned.args.rpc /\ returned.args.reply_to # None
    /\ returned.result = Result("raise", "ValueError", 0)

\* C6: an RPC-mode publish with a positive rpc_timeout that was handed the
\* reply to its own request while it waited returns that reply's decoded
\* value.
C6_HappyPath ==
    \A i \in 1..Len(returned.arrived) :
        ( /\ returned.args.rpc_timeout > 0
          /\ returned.result.kind # "cancelled"
          /\ returned.arrived[i].corr = returned.corr ) =>
            /\ returned.result.kind = "value"
            /\ returned.result.val = decode_message(returned.arrived[i])

\* An RPC publish that sent its request and, uncancelled, saw its deadline
\* pass: the deadline was 0, or nothing was handed to it.
TimedOut ==
    /\ returned.c # 0
    /\ returned.args.rpc
    /\ returned.sent = 1
    /\ returned.result.kind # "cancelled"
    /\ returned.args.rpc_timeout = 0 \/ returned.arrived = <<>>

\* C7: a timed-out RPC publish raises TimeoutError when raise_timeout is
\* set and returns None otherwise, and these outcomes arise from a timeout
\* only; with rpc_timeout = 0 no reply value is ever returned.
C7_TimeoutPolicy ==
    /\ TimedOut =>
          returned.result = IF returned.args.raise_timeout
                            THEN Result("raise", "TimeoutError", 0)
                            ELSE Result("none", None, 0)
    /\ returned.result \in {Result("raise", "TimeoutError", 0),
                            Result("none", None, 0)} => TimedOut
    /\ (returned.args.rpc /\ returned.args.rpc_timeout = 0) =>
          returned.result.kind # "value"

\* With rpc_timeout = 0 a reply was at hand and None was returned.
C7_Witness ==
    /\ returned.args.rpc_timeout = 0
    /\ returned.arrived # <<>>
    /\ returned.result = Result("none", None, 0)

\* C8: an attempt whose handler returned ends with ack, whatever became of
\* the publishes of its result.
C8_ReturnMeansAck ==
    ( /\ finished.d # 0
      /\ finished.rec.r # None
      /\ finished.rec.exc # "CancelledError" ) =>
        finished.rec.acked = <<"ack">>

\* The subscriptions decorated for the routing key of delivery d, in the
\* order of decoration.
RECURSIVE Decorated(_, _)
Decorated(log, key) ==
    IF log = <<>> THEN <<>>
    ELSE IF Head(log)[1] = key
         THEN <<Head(log)[2]>> \o Decorated(Tail(log), key)
         ELSE Decorated(Tail(log), key)

Fresh(d) == [processed |-> FALSE, reply_to |-> dlv[d].msg.reply_to]

\* C9: the subscription that runs for a delivery is the first decorated
\* one, for its queue and exchange, whose filter accepts the delivery; a
\* delivery none accepts is invoked by none; a claimed delivery is not
\* accepted by any default filter.
C9_FirstMatchWins ==
    \A d \in MsgIds :
        LET S == Decorated(registered,
                           get_routing_hash(dlv[d].msg.dest, None))
        IN /\ InFlight(d) =>
                /\ dlv[d].sub \in 1..Len(S)
                /\ Filter(S[dlv[d].sub].filter, Fresh(d))
                /\ \A j \in 1..(dlv[d].sub - 1) :
                      ~Filter(S[j].filter, Fresh(d))
                /\ dlv[d].processed
           /\ dlv[d].pc = "unmatched" =>
                \A j \in 1..Len(S) : ~Filter(S[j].filter, Fresh(d))
           /\ dlv[d].processed =>
                \A j \in 1..Len(S) :
                    S[j].filter = "default" =>
                        ~Filter(S[j].filter, FilterView(d))

\* The second subscription runs: the filter of the first refused.
C9_Witness ==
    \E d \in MsgIds :
        /\ InFlight(d)
        /\ dlv[d].sub = 2
        /\ SubsOf(d)[1].filter = "has_reply"

\* What process_wrapper has handed to publish() as replies for an attempt
\* whose handler returned: one message to the reply destination with the
\* delivery's correlation id and the returned value, or none.
ReplyOk(rec) ==
    IF rec.msg.reply_to = None THEN rec.replyLog = <<>>
    ELSE /\ Len(rec.replyLog) = 1
         /\ rec.replyLog[1].dest = rec.msg.reply_to
         /\ rec.replyLog[1].corr = rec.msg.corr
         /\ decode_message(rec.replyLog[1]) = rec.r

\* C10: when the handler has returned r, r has been published once to the
\* delivery's reply destination with the delivery's correlation id, and not
\* at all when the delivery names no reply destination.
C10_ReplyOnce ==
    /\ \A d \in MsgIds : dlv[d].pc \in {"reply", "down"} => ReplyOk(dlv[d])
    /\ (finished.d # 0 /\ finished.rec.r # None) => ReplyOk(finished.rec)

\* An acknowledged attempt that published its reply.
C10_Witness ==
    /\ finished.d # 0
    /\ finished.rec.r # None
    /\ finished.rec.msg.reply_to # None
    /\ finished.rec.acked = <<"ack">>

\* The subscription that ran the attempt recorded in rec.
SubOfRec(rec) == handlers[get_routing_hash(rec.msg.dest, None)][rec.sub]

\* What process_wrapper has handed to publish() for the downstream
\* publishers: one message per publisher, in their order, each with the
\* returned value, the delivery's correlation id and the publisher's queue
\* and reply_to.
DownOk(rec, sub) ==
    /\ Len(rec.downLog) = Len(sub.publishers)
    /\ \A i \in 1..Len(rec.downLog) :
          rec.downLog[i] = encode_message(rec.r, sub.publishers[i].reply_to,
                                          rec.msg.corr,
                                          sub.publishers[i].queue)

\* C11: an attempt whose handler returned r has published r once to every
\* downstream publisher of its subscription, in order, with the delivery's
\* correlation id, whether or not there was a reply destination and
\* whatever became of the reply publish.
C11_ForwardToAll ==
    ( /\ finished.d # 0
      /\ finished.rec.r # None
      /\ finished.rec.exc # "CancelledError" ) =>
        DownOk(finished.rec, SubOfRec(finished.rec))

\* C12: an attempt that reached the downstream publishers and was not
\* cancelled has made every downstream publish, returned the handler's
\* result and ended with ack, also when downstream publishes failed; while
\* the loop runs no failure is pending.
C12_DownstreamIsolated ==
    /\ \A d \in MsgIds : dlv[d].pc = "down" => dlv[d].exc = None
    /\ ( /\ finished.d # 0
         /\ finished.rec.downLog # <<>>
         /\ finished.rec.exc # "CancelledError" ) =>
           /\ DownOk(finished.rec, SubOfRec(finished.rec))
           /\ finished.rec.exc = None
           /\ finished.rec.r # None
           /\ finished.rec.acked = <<"ack">>

\* The first of two downstream publishes failed and was logged, the second
\* was made, and the attempt ended with ack.
C12_Witness ==
    /\ finished.d # 0
    /\ Len(finished.rec.downLog) = 2
    /\ finished.rec.logged = <<1>>
    /\ finished.rec.acked = <<"ack">>

\* C13: an attempt whose handler raised RuntimeException ends with ack and
\* has published nothing: no reply and no downstream message.
C13_NoOpAcked ==
    ( /\ finished.d # 0
      /\ finished.rec.raised = "RuntimeException" ) =>
        /\ finished.rec.pc = "done"
        /\ finished.rec.acked = <<"ack">>
        /\ finished.rec.replyLog = <<>>
        /\ finished.rec.downLog = <<>>

\* The handler of a delivery with a reply destination, under a subscription
\* with downstream publishers, raised RuntimeException.
C13_Witness ==
    /\ finished.d # 0
    /\ finished.rec.raised = "RuntimeException"
    /\ finished.rec.msg.reply_to # None
    /\ SubOfRec(finished.rec).publishers # <<>>
    /\ finished.rec.acked = <<"ack">>

\* C14: an attempt in which binding the payload to the handler's arguments
\* failed ends with reject under every retry setting, and has published no
\* reply and no downstream message.
C14_ValidationRejected ==
    ( /\ finished.d # 0
      /\ finished.rec.raised = BinderError ) =>
        /\ finished.rec.pc = "done"
        /\ finished.rec.acked = <<"reject">>
        /\ finished.rec.replyLog = <<>>
        /\ finished.rec.downLog = <<>>

\* C15: under a subscription without a watcher, an attempt whose handler
\* raised anything but RuntimeException ends with reject, on the first
\* attempt, and the delivery is not requeued.
C15_SingleTryRejects ==
    ( /\ finished.d # 0
      /\ SubOfRec(finished.rec).retry = 0
      /\ finished.rec.raised \notin {None, "RuntimeException"} ) =>
        /\ finished.rec.pc = "done"
        /\ finished.rec.acked = <<"reject">>
        /\ finished.rec.attempt = 0

\* The handler of a subscription without a watcher raised Exception.
C15_Witness ==
    /\ finished.d # 0
    /\ SubOfRec(finished.rec).retry = 0
    /\ finished.rec.raised = "Exception"
    /\ finished.rec.acked = <<"reject">>

\* The attempts of a delivery are counted one by one and never exceed the
\* maximum of the counted-retry watcher by more than the first attempt; a
\* failed attempt under such a watcher is requeued while its count of
\* earlier attempts is below the maximum and rejected once it has reached it.
CountedRetry ==
    /\ \A d \in MsgIds :
          /\ watcher[d] <= MaxTries + 1
          /\ InFlight(d) => watcher[d] = dlv[d].attempt + 1
    /\ ( /\ finished.d # 0
         /\ SubOfRec(finished.rec).retry > 0
         /\ finished.rec.exc \notin {None, "ValidationError"} ) =>
           finished.rec.acked =
              IF finished.rec.attempt < SubOfRec(finished.rec).retry
              THEN <<"requeue">> ELSE <<"reject">>

\* The count of a delivery changes by one, when the delivery is taken from
\* its queue, or is dropped with its entry.
CountsByOne ==
    \A d \in MsgIds :
        /\ (dlv[d].pc = "queued" /\ dlv'[d].pc = "handler") =>
              watcher'[d] = watcher[d] + 1
        /\ watcher'[d] # watcher[d] =>
              \/ watcher'[d] = watcher[d] + 1 /\ dlv[d].pc = "queued"
              \/ watcher'[d] = 0

\* C16: under the counted-retry watcher with maximum N a failing delivery is
\* requeued after each failure until its attempt count has reached N and is
\* then rejected; the count grows by exactly one per redelivery, so a
\* delivery is processed at most N + 1 times.
C16_CountedRetry == []CountedRetry /\ [][CountsByOne]_vars

\* A delivery was requeued up to the maximum and then rejected.
C16_Witness ==
    /\ finished.d # 0
    /\ SubOfRec(finished.rec).retry = MaxTries
    /\ finished.rec.attempt = MaxTries
    /\ finished.rec.raised = "Exception"
    /\ finished.rec.acked = <<"reject">>

\* The deliveries that have a WatcherEntry.
WatcherEntries == {d \in MsgIds : watcher[d] > 0}

\* An entry belongs to a delivery that is being processed or waits in its
\* queue after a requeue; a delivery being processed has one; a delivery
\* that was acknowledged or rejected has none.
EntriesLive ==
    /\ \A d \in WatcherEntries :
          dlv[d].pc \in {"queued", "handler", "reply", "down"}
    /\ \A d \in MsgIds : InFlight(d) => d \in WatcherEntries
    /\ (finished.d # 0 /\ finished.rec.pc = "done") =>
          finished.d \notin WatcherEntries
    /\ (finished.d # 0 /\ finished.rec.pc = "requeued") =>
          finished.d \in WatcherEntries

\* Nothing happens any more to a delivery that was acknowledged or rejected.
TerminalStays ==
    \A d \in MsgIds :
        dlv[d].pc = "done" => dlv'[d] = dlv[d] /\ watcher'[d] = watcher[d]

\* C19: a WatcherEntry exists for a delivery from its first attempt until it
\* is acknowledged or rejected; then the entry is removed and the delivery
\* makes no further transition, so the entries are those of deliveries
\* pending or requeued.
C19_EntryLifetime == []EntriesLive /\ [][TerminalStays]_vars

\* A delivery was requeued and then rejected; its entry is gone while
\* another delivery still has one.
C19_Witness ==
    /\ finished.d # 0
    /\ finished.rec.attempt > 0
    /\ finished.rec.acked = <<"reject">>
    /\ finished.d \notin WatcherEntries
    /\ WatcherEntries # {}

\* C17: a publish with rpc=false never enters the RPC context, never waits
\* for the lock and never owns it; the reply publish and the downstream
\* publishes of process_wrapper never have to wait for the lock; and a
\* one-way publish that sent its message returned the confirmation.
C17_OneWayLockFree ==
    /\ \A c \in CallIds :
          (call[c].entered \/ call[c].pc = "enter") => call[c].args.rpc
    /\ \A l \in LockIds : rpc_lock[l] # 0 => call[rpc_lock[l]].args.rpc
    /\ \A d \in MsgIds :
          /\ dlv[d].pc = "reply" => ~LockWait(ReplyArgs(dlv[d]))
          /\ dlv[d].pc = "down" =>
                ~LockWait(DownArgs(SubOf(d).publishers[dlv[d].idx]))
    /\ (returned.c # 0 /\ ~returned.args.rpc /\ returned.sent = 1) =>
          /\ returned.result = Result("confirm", None, 0)
          /\ ~returned.entered

\* While an RPC publish holds the lock and waits, process_wrapper published
\* the reply into its stream and a downstream message, and a one-way
\* publish the application made after it returned its confirmation.
C17_Witness ==
    \E c \in CallIds :
        /\ rpc_lock[LockFor(c)] = c
        /\ call[c].pc = "wait"
        /\ stream[c] # <<>>
        /\ finished.d # 0
        /\ finished.rec.replyLog # <<>>
        /\ finished.rec.downLog # <<>>
        /\ finished.rec.acked = <<"ack">>
        /\ returned.c > c
        /\ returned.result = Result("confirm", None, 0)

\* The parameters of a signature whose default is an injection marker.
Dependencies(sig) == {n \in 1..Len(sig) : sig[n].default \in NOT_CAST}

\* The bound-value parameters handed a value their declared type refuses.
Mismatched(b) ==
    LET kw == merge(b.sig, b.args, b.kwargs)
    IN {n \in 1..Len(b.sig) :
          /\ n \notin Dependencies(b.sig)
          /\ kw[n] # Absent
          /\ b.sig[n].annotation = "int"
          /\ kw[n] = "sx"}

\* C18: in a call of a wrapped function no dependency parameter is handed a
\* payload value, positional or by key, and none is cast; a bound value of
\* the wrong type makes the call fail with the binder's error for one of the
\* mismatched parameters, and the call fails so for no other reason.
C18_DependencyUntouched ==
    binding.out # Unbound =>
        /\ binding.out.status = "called" =>
              \A n \in Dependencies(binding.sig) : binding.out.kw[n] = Absent
        /\ Mismatched(binding) # {} =>
              /\ binding.out.status = BinderError
              /\ binding.out.err \in Mismatched(binding)
        /\ binding.out.status = BinderError => Mismatched(binding) # {}

\* The table holds, for every routing key, the subscriptions registered for
\* that queue and exchange, in the order of registration, and nothing for a
\* key never registered.
OneHandlerPerKey ==
    \A k \in RoutingKeys : handlers[k] = Decorated(registered, k)

\* A registration appends its subscription to the handler of its own key
\* and leaves every other key as it was.
RegistersOwnKey ==
    Len(registered') = Len(registered) + 1 =>
        LET key == registered'[Len(registered')][1]
            sub == registered'[Len(registered')][2]
        IN /\ handlers'[key] = Append(handlers[key], sub)
           /\ \A k \in RoutingKeys \ {key} : handlers'[k] = handlers[k]

\* C20: after any registrations the handlers table has one handler per
\* (queue, exchange): the first registration of a key creates it, a later
\* one with the same pair appends to it in order, and no registration
\* changes the handler of another key.
C20_OneHandlerPerKey == []OneHandlerPerKey /\ [][RegistersOwnKey]_vars

\* Two subscriptions on one key, in order, and the same queue with the
\* other exchange left without a handler.
C20_Witness ==
    /\ Len(handlers[get_routing_hash("q", "ex")]) = 2
    /\ handlers[get_routing_hash("q", "ex")][1] #
          handlers[get_routing_hash("q", "ex")][2]
    /\ handlers[get_routing_hash("q", None)] = <<>>

\* C21: while the reply publish and the downstream publishes of an attempt
\* run, no acknowledgment has been issued and the WatcherEntry is still
\* there; an attempt whose handler returned and that ended with ack has made
\* its reply publish and every downstream publish before.
C21_ForwardBeforeAck ==
    /\ \A d \in MsgIds :
          dlv[d].pc \in {"reply", "down"} =>
              dlv[d].acked = <<>> /\ watcher[d] > 0
    /\ ( /\ finished.d # 0
         /\ finished.rec.r # None
         /\ finished.rec.acked = <<"ack">> ) =>
           /\ ReplyOk(finished.rec)
           /\ DownOk(finished.rec, SubOfRec(finished.rec))

\* A delivery with a reply destination, handled by a subscription with two
\* downstream publishers, was acknowledged after its three publishes.
C21_Witness ==
    /\ finished.d # 0
    /\ finished.rec.acked = <<"ack">>
    /\ Len(finished.rec.replyLog) = 1
    /\ Len(finished.rec.downLog) = 2
    /\ watcher[finished.d] = 0

\* An RPC-mode publish that has been started and has not yet returned.
Pending(c) == call[c].args.rpc /\ call[c].pc \in {"enter", "send", "wait"}

\* C22: every RPC-mode publish that was started completes, and every one
\* that waits for the RPC lock gets it, also when it was made by a handler
\* that serves the request of another RPC publish still in flight.
C22_RpcCompletes ==
    \A c \in CallIds :
        /\ Pending(c) ~> call[c].pc = "done"
        /\ call[c].pc = "enter" ~> rpc_lock[LockFor(c)] = c

\* The handler serving the request of an RPC publish made an RPC publish of
\* its own, which holds the lock after the first one timed out.
C22_Witness ==
    \E d \in MsgIds, c \in CallIds :
        /\ dlv[d].pc = "calling"
        /\ dlv[d].inner = c
        /\ dlv[d].msg.reply_to = RABBIT_REPLY
        /\ dlv[d].msg.corr # c
        /\ rpc_lock[LockFor(c)] = c
        /\ returned.c = dlv[d].msg.corr
        /\ returned.result.kind \in {"none", "raise"}
====
